---- MODULE Spec2Model ----
(***************************************************************************)
(* django-modalview: django_modalview/generic/base.py and component.py.    *)
(*                                                                         *)
(* One modal view class (a ModalTemplateView or a ModalTemplateUtilView,   *)
(* possibly subclassed by a site author) serving a bounded sequence of GET *)
(* requests.  Every request gets a freshly constructed view instance, is   *)
(* dispatched, and is then carried through the get handler step by step    *)
(* until a response is built or the handler raises.                        *)
(*                                                                         *)
(* Python values are written as tagged tuples of strings so that values of *)
(* different Python types can be compared:                                 *)
(*   None            <<"None">>                                            *)
(*   "abc"           <<"str", "abc">>                                      *)
(*   ["a", "b"]      <<"list", "a", "b">>                                  *)
(*   ModalResponse   <<"ModalResponse", text, result>>                     *)
(*   ModalButton     <<"ModalButton", value, type, url>>                   *)
(* A Python dict is a function from its keys (strings) to such values.     *)
(* A QueryDict is a function from its keys to the raw tuple of all the     *)
(* values the query string gave for that key, as MultiValueDict stores it. *)
(***************************************************************************)
EXTENDS Naturals, Sequences, FiniteSets, TLC

VARIABLES
    cfg,          \* the view class in use: library class plus the site author's overrides
    view,         \* the attributes of the current view instance
    req,          \* the request being handled
    pc,           \* position of the current request in construction / dispatch / get
    reqNo,        \* number of the request being handled (1-based)
    ctx,          \* the context dict assembled by ModalView.get
    response,     \* the arguments the response class was constructed with
    renderCalls,  \* calls of render_to_string made for this request
    csrfCalls,    \* calls of get_token made for this request
    kwEvals,      \* evaluations of get_util_kwargs made for this request
    utilCalls,    \* invocations of the utility method made for this request
    utilArgs,     \* keyword arguments of the last utility invocation
    utilPrior,    \* util_kwargs as get_util_kwargs last found them
    utilEffect,   \* what the last utility invocation assigned on the view
    log,          \* the order of the handler's steps for this request
    error,        \* the exception that ended the request, if any
    leftover      \* whether the previous request's instance ended with its
                  \* mutable fields all changed from their constructed values

vars == <<cfg, view, req, pc, reqNo, ctx, response, renderCalls, csrfCalls,
          kwEvals, utilCalls, utilArgs, utilPrior, utilEffect, log, error, leftover>>

\* Number of requests served in one behaviour.
MaxRequests == 2

-----------------------------------------------------------------------------
\* component.py: the template names

GET_TEMPLATE == "django_modalview/modal.html"
GET_TEMPLATE_CONTENT == "django_modalview/modal_get_content.html"
BASE_TEMPLATE == "django_modalview/base.html"

-----------------------------------------------------------------------------
\* Python values

None == <<"None">>
Str(s) == <<"str", s>>
List(t) == <<"list">> \o t

\* bool(v) for the values used here: None, "" and [] are falsy.
Truthy(v) == v # None /\ v # Str("") /\ v # <<"list">>

\* component.py: ModalButton(value, button_type, url=None); display stays True.
ModalButton(value, button_type) == <<"ModalButton", value, button_type, "None">>

\* component.py: ModalResponse(text, result)
ModalResponse(text, result) == <<"ModalResponse", text, result>>

\* The view instance itself, as a context value ('view': self).
Self == <<"view">>

EmptyDict == [k \in {} |-> None]

\* dict.update(other) for a plain dict `other`: other's entries win.
dict_update(d, other) ==
    [k \in DOMAIN d \cup DOMAIN other |-> IF k \in DOMAIN other THEN other[k] ELSE d[k]]

\* dict.update(query) for a QueryDict: CPython copies the entries the dict
\* subclass stores, and a MultiValueDict stores for each key the list of all
\* its values, so each query key arrives bound to that list.
dict_update_querydict(d, query) ==
    [k \in DOMAIN d \cup DOMAIN query |-> IF k \in DOMAIN query THEN List(query[k]) ELSE d[k]]

\* QueryDict.get(key): the last value given for the key, None if absent.
QueryDict_get(query, key) ==
    IF key \in DOMAIN query /\ Len(query[key]) > 0
    THEN Str(query[key][Len(query[key])])
    ELSE None

-----------------------------------------------------------------------------
\* Bounded inputs

\* The library classes a site author derives from.
ViewClasses == {"ModalTemplateView", "ModalTemplateUtilView"}

\* Values a subclass constructor, or the utility method, may give redirect_to.
RedirectTargets == {None, Str(""), Str("/done/")}

\* Query strings: "", "?util=true", "?util=", "?x=5", "?x=1&x=2" and their mixes.
UtilMarkers == {<<>>, <<"true">>, <<"">>}
XParams == {<<>>, <<"5">>, <<"1", "2">>}
QueryOf(u, x) ==
    [k \in (IF u = <<>> THEN {} ELSE {"util"}) \cup (IF x = <<>> THEN {} ELSE {"x"})
        |-> IF k = "util" THEN u ELSE x]
Queries == {QueryOf(u, x) : u \in UtilMarkers, x \in XParams}

\* Keyword arguments captured from the URL pattern.
UrlKwargs ==
    { EmptyDict,
      [k \in {"x"} |-> Str("7")],
      [k \in {"response", "csrf_token_value"} |-> Str("from-url")] }

\* What a get_context_data override adds to the framework's {'view': self}.
ContextExtras ==
    { EmptyDict, [k \in {"csrf_token_value"} |-> Str("from-context-data")] }

\* The classes: a library class, the methods the subclass defines, and the
\* attributes its constructor assigns after calling the library constructor.
Configs ==
    { c \in [ cls : ViewClasses,
              methods : {{}, {"util"}, {"run_check"}},
              util_name : {None, Str("run_check")},
              template_name : {None, Str("site/custom.html")},
              content_template_name : {None, Str("site/custom_content.html")},
              redirect_to : RedirectTargets,
              context_extra : ContextExtras ] :
        c.cls = "ModalTemplateView" => (c.methods = {} /\ c.util_name = None) }

\* What the utility method, written by the site author, does to the view:
\* it may assign self.response and it may assign self.redirect_to.
Unassigned == <<"unassigned">>
UtilEffects ==
    [ response : {Unassigned, ModalResponse("ok", "info")},
      redirect_to : {Unassigned, Str(""), Str("/done/")} ]

\* No utility method has run: nothing was assigned.
NoEffect == [response |-> Unassigned, redirect_to |-> Unassigned]

Requests == [is_ajax : BOOLEAN, GET : Queries, kwargs : UrlKwargs, path : {"/thing/"}]
NoRequest == [is_ajax |-> FALSE, GET |-> EmptyDict, kwargs |-> EmptyDict, path |-> ""]

-----------------------------------------------------------------------------
\* Construction (base.py: the __init__ chain, in the order the bodies run)

\* An object before any __init__ body has run; every attribute is assigned
\* by the chain below before it is read.
Blank ==
    [ is_ajax |-> FALSE, _can_redirect |-> FALSE, redirect_to |-> None,
      title |-> None, response |-> None, icon |-> None, description |-> None,
      close_button |-> None, content_template_name |-> None,
      base_template_name |-> None, template_name |-> None,
      util_kwargs |-> EmptyDict, util_button |-> None, util_name |-> None ]

\* ModalView.__init__
ModalView__init__(v) ==
    [v EXCEPT !.is_ajax = FALSE, !._can_redirect = FALSE, !.redirect_to = None]

\* ModalContextMixin.__init__ (icon keeps its default None)
ModalContextMixin__init__(v) ==
    [v EXCEPT !.title = Str("title"),
              !.response = None,
              !.icon = None,
              !.description = Str("description"),
              !.close_button = ModalButton("Close", "primary"),
              !.content_template_name = None,
              !.base_template_name = Str(BASE_TEMPLATE)]

\* BaseModalView.__init__
BaseModalView__init__(v) ==
    [v EXCEPT !.template_name = Str(GET_TEMPLATE),
              !.content_template_name = Str(GET_TEMPLATE_CONTENT)]

\* ModalUtilMixin.__init__ without the per-instance dict: util_kwargs would be
\* one mapping shared by every instance.
ModalUtilMixin__init__shared(v) == v

\* ModalUtilMixin.__init__
ModalUtilMixin__init__(v) == [v EXCEPT !.util_kwargs = EmptyDict]

\* ModalTemplateUtilView.__init__ (button keeps its default None)
ModalTemplateUtilView__init__(v) ==
    [v EXCEPT !.util_button = ModalButton("Run test", "info"),
              !.util_name = Str("util")]

\* Constructing an instance: the bodies run innermost first, ModalView.__init__
\* being reached through super(ContextMixin, self).__init__.
NewInstance(v, cls) ==
    LET base == BaseModalView__init__(ModalContextMixin__init__(ModalView__init__(v)))
    IN  IF cls = "ModalTemplateUtilView"
        THEN ModalTemplateUtilView__init__(ModalUtilMixin__init__(base))
        ELSE base

\* The rest of a subclass constructor: the attributes the site author
\* assigns after the library constructor has returned.
SubclassInit(v, c) ==
    [v EXCEPT !.template_name =
                  IF c.template_name = None THEN @ ELSE c.template_name,
              !.content_template_name =
                  IF c.content_template_name = None THEN @ ELSE c.content_template_name,
              !.redirect_to =
                  IF c.redirect_to = None THEN @ ELSE c.redirect_to,
              !.util_name =
                  IF c.util_name = None THEN @ ELSE c.util_name]

\* hasattr(self, name) for a utility name: the methods the subclass defines.
\* The library classes define no method called 'util' or 'run_check'.
hasattr(c, name) == name \in {Str(m) : m \in c.methods}

-----------------------------------------------------------------------------
\* What the handling of one request has recorded so far

NoResponse ==
    [cls |-> "none", response_type |-> None, redirect_to |-> None,
     content |-> [template |-> None, context |-> EmptyDict]]

Init ==
    /\ cfg \in Configs
    /\ view = NewInstance(Blank, cfg.cls)
    /\ req = NoRequest
    /\ pc = "constructed"
    /\ reqNo = 1
    /\ ctx = EmptyDict
    /\ response = NoResponse
    /\ renderCalls = 0
    /\ csrfCalls = 0
    /\ kwEvals = 0
    /\ utilCalls = 0
    /\ utilArgs = EmptyDict
    /\ utilPrior = EmptyDict
    /\ utilEffect = NoEffect
    /\ log = <<>>
    /\ error = "none"
    /\ leftover = FALSE

\* The subclass constructor finishes; the instance is handed to dispatch.
Configure ==
    /\ pc = "constructed"
    /\ view' = SubclassInit(view, cfg)
    /\ pc' = "ready"
    /\ UNCHANGED <<cfg, req, reqNo, ctx, response, renderCalls, csrfCalls,
                   kwEvals, utilCalls, utilArgs, utilPrior, utilEffect, log, error, leftover>>

-----------------------------------------------------------------------------
\* Collaborators of the host framework, as base.py calls them

\* request.is_ajax(), as ModalView.dispatch reads it.
request_is_ajax(r) == r.is_ajax

\* get_token(self.request): the CSRF token issued for the request.
get_token(n) == Str("csrf-token-" \o ToString(n))

\* self.get_template_names(): the list holding self.template_name.
get_template_names(v) == <<v.template_name>>

\* render_to_string(names, context): the rendered string is determined by
\* the first template of the list and the context it was given.
render_to_string(names, context) == [template |-> names[1], context |-> context]

\* self.get_context_data(): the framework's {'view': self} and whatever a
\* subclass override adds.
get_context_data(c) == dict_update([k \in {"view"} |-> Self], c.context_extra)

-----------------------------------------------------------------------------
\* ModalContextMixin and ModalTemplateUtilView: the modal context

\* _generate_modal_context leaving the utility's result out of the context.
_generate_modal_context_no_response(v) ==
    [ title |-> v.title,
      description |-> v.description,
      button_close |-> v.close_button,
      content_template_name |-> v.content_template_name,
      base_template_name |-> v.base_template_name,
      icon |-> v.icon,
      response |-> None ]

\* ModalContextMixin._generate_modal_context
_generate_modal_context(v) ==
    [ title |-> v.title,
      description |-> v.description,
      button_close |-> v.close_button,
      content_template_name |-> v.content_template_name,
      base_template_name |-> v.base_template_name,
      icon |-> v.icon,
      response |-> v.response ]

\* ModalContextMixin.get_context_modal_data
ModalContextMixin_get_context_modal_data(v, kwargs) ==
    dict_update(kwargs, _generate_modal_context(v))

\* ModalTemplateUtilView.get_context_modal_data
ModalTemplateUtilView_get_context_modal_data(v, kwargs) ==
    ModalContextMixin_get_context_modal_data(
        v, dict_update(kwargs, [k \in {"util_button"} |-> v.util_button]))

\* self.get_context_modal_data(**kwargs), resolved on the instance's class.
get_context_modal_data(v, cls, kwargs) ==
    IF cls = "ModalTemplateUtilView"
    THEN ModalTemplateUtilView_get_context_modal_data(v, kwargs)
    ELSE ModalContextMixin_get_context_modal_data(v, kwargs)

-----------------------------------------------------------------------------
\* ModalView and ModalTemplateMixin: response selection

\* can_redirect without the is_ajax conjunct.
can_redirect_any_request(v) == v._can_redirect /\ Truthy(v.redirect_to)

\* can_redirect without the armed-flag conjunct.
can_redirect_unarmed(v) == v.is_ajax /\ Truthy(v.redirect_to)

\* ModalView.can_redirect: the truth value of the and-chain.
can_redirect(v) == v._can_redirect /\ v.is_ajax /\ Truthy(v.redirect_to)

\* _valid_template leaving the template as the view holds it.
_valid_template_kept(v) == v

\* ModalTemplateMixin._valid_template
_valid_template(v) ==
    IF ~v.is_ajax THEN [v EXCEPT !.template_name = Str(GET_TEMPLATE)] ELSE v

\* _get_content adding the token only where the context has none.
_get_content_token_first(v, context, token) ==
    LET v1 == _valid_template(v)
        c1 == dict_update([k \in {"csrf_token_value"} |-> token], context)
    IN  [view |-> v1, context |-> c1,
         content |-> render_to_string(get_template_names(v1), c1)]

\* ModalTemplateMixin._get_content: the view and the context as it leaves
\* them, and the rendered content it returns.
_get_content(v, context, token) ==
    LET v1 == _valid_template(v)
        c1 == dict_update(context, [k \in {"csrf_token_value"} |-> token])
    IN  [view |-> v1, context |-> c1,
         content |-> render_to_string(get_template_names(v1), c1)]

\* ModalTemplateMixin.get_response
get_response(is_ajax) == IF is_ajax THEN "ModalJsonResponse" ELSE "HttpResponse"

\* ModalTemplateMixin.render_to_response: the response constructed (class
\* and arguments), the view and context as it leaves them, and how many
\* times it rendered a template and asked for a CSRF token.
render_to_response(v, c, is_ajax, context, token) ==
    LET ResponseClass == get_response(is_ajax)
    IN  IF can_redirect(v)
        THEN [view |-> v, context |-> context, renders |-> 0, tokens |-> 0,
              response |-> [cls |-> ResponseClass,
                            response_type |-> Str("redirect"),
                            redirect_to |-> v.redirect_to,
                            content |-> NoResponse.content]]
        ELSE LET got == _get_content(v, dict_update(context, get_context_data(c)), token)
             IN  [view |-> got.view, context |-> got.context,
                  renders |-> 1, tokens |-> 1,
                  response |-> [cls |-> ResponseClass,
                                response_type |-> None,
                                redirect_to |-> None,
                                content |-> got.content]]

-----------------------------------------------------------------------------
\* ModalUtilMixin: the utility invocation

\* ModalUtilMixin.get_util_kwargs: the view as it leaves it and the mapping
\* it returns.
get_util_kwargs(v, query, kwargs) ==
    LET kw == dict_update_querydict(kwargs, query)
        merged == dict_update(v.util_kwargs, kw)
    IN  [view |-> [v EXCEPT !.util_kwargs = merged], result |-> merged]

\* getattr(self, func_name)(*args, **util_kwargs): the site author's
\* utility method, which may assign self.response and self.redirect_to.
call_util(v, effect) ==
    [v EXCEPT !.response = IF effect.response = Unassigned THEN @ ELSE effect.response,
              !.redirect_to = IF effect.redirect_to = Unassigned THEN @ ELSE effect.redirect_to]

\* get_util merging the keyword arguments before it looks the method up.
get_util_merging_first(v, c, query, func_name, kwargs, effect) ==
    LET k == get_util_kwargs(v, query, kwargs)
    IN  IF hasattr(c, func_name)
        THEN [view |-> call_util(k.view, effect), raised |-> FALSE,
              kw_evals |-> 1, calls |-> 1, args |-> k.result]
        ELSE [view |-> k.view, raised |-> TRUE, kw_evals |-> 1, calls |-> 0,
              args |-> EmptyDict]

\* ModalUtilMixin.get_util: the view as it leaves it, whether it raised,
\* and what it evaluated and called on the way.
get_util(v, c, query, func_name, kwargs, effect) ==
    IF hasattr(c, func_name)
    THEN LET k == get_util_kwargs(v, query, kwargs)
         IN  [view |-> call_util(k.view, effect), raised |-> FALSE,
              kw_evals |-> 1, calls |-> 1, args |-> k.result]
    ELSE [view |-> v, raised |-> TRUE, kw_evals |-> 0, calls |-> 0, args |-> EmptyDict]

-----------------------------------------------------------------------------
\* ModalTemplateUtilView.dispatch and ModalView.dispatch

\* ModalTemplateUtilView.dispatch: the button's url becomes path + '?util=true'.
ModalTemplateUtilView_dispatch(v, r) ==
    [v EXCEPT !.util_button = [@ EXCEPT ![4] = r.path \o "?util=true"]]

\* ModalView.dispatch
ModalView_dispatch(v, r) == [v EXCEPT !.is_ajax = request_is_ajax(r)]

\* self.dispatch(request, *args, **kwargs), resolved on the instance's class.
dispatch(v, cls, r) ==
    IF cls = "ModalTemplateUtilView"
    THEN ModalView_dispatch(ModalTemplateUtilView_dispatch(v, r), r)
    ELSE ModalView_dispatch(v, r)

\* The marker test of ModalTemplateUtilView.get: get_dict.get('util').
util_requested(r) == Truthy(QueryDict_get(r.GET, "util"))

\* ModalTemplateUtilView.get without the template switch.
switch_template_skipped(v) == v

\* ModalTemplateUtilView.get: self.template_name = self.content_template_name.
switch_template(v) == [v EXCEPT !.template_name = v.content_template_name]

-----------------------------------------------------------------------------
\* The steps of one request

\* A GET request arrives and is dispatched to the class's get handler.
Dispatch ==
    /\ pc = "ready"
    /\ \E r \in Requests :
          /\ req' = r
          /\ view' = dispatch(view, cfg.cls, r)
    /\ pc' = IF cfg.cls = "ModalTemplateUtilView" THEN "util_get" ELSE "modal_get"
    /\ UNCHANGED <<cfg, reqNo, ctx, response, renderCalls, csrfCalls,
                   kwEvals, utilCalls, utilArgs, utilPrior, utilEffect, log, error, leftover>>

\* ModalTemplateUtilView.get, up to the arming of the redirect flag.
UtilViewGet ==
    /\ pc = "util_get"
    /\ IF util_requested(req)
       THEN /\ view' = [view EXCEPT !._can_redirect = TRUE]
            /\ log' = Append(log, "arm")
            /\ pc' = "get_util"
       ELSE /\ pc' = "modal_get"
            /\ UNCHANGED <<view, log>>
    /\ UNCHANGED <<cfg, req, reqNo, ctx, response, renderCalls, csrfCalls,
                   kwEvals, utilCalls, utilArgs, utilPrior, utilEffect, error, leftover>>

\* ModalTemplateUtilView.get: self.get_util(self.util_name, **self.kwargs).
GetUtil ==
    /\ pc = "get_util"
    /\ \E e \in UtilEffects :
          LET r == get_util(view, cfg, req.GET, view.util_name, req.kwargs, e)
          IN  /\ view' = r.view
              /\ kwEvals' = kwEvals + r.kw_evals
              /\ utilCalls' = utilCalls + r.calls
              /\ utilArgs' = IF r.calls > 0 THEN r.args ELSE utilArgs
              /\ utilPrior' = IF r.kw_evals > 0 THEN view.util_kwargs ELSE utilPrior
              /\ utilEffect' = IF r.calls > 0 THEN e ELSE utilEffect
              /\ IF r.raised
                 THEN /\ pc' = "error"
                      /\ error' = "Exception"
                      /\ log' = log
                 ELSE /\ pc' = "switch"
                      /\ error' = error
                      /\ log' = Append(log, "util")
    /\ UNCHANGED <<cfg, req, reqNo, ctx, response, renderCalls, csrfCalls, leftover>>

\* ModalTemplateUtilView.get: the template switch after the utility returned.
SwitchTemplate ==
    /\ pc = "switch"
    /\ view' = switch_template(view)
    /\ log' = Append(log, "switch")
    /\ pc' = "modal_get"
    /\ UNCHANGED <<cfg, req, reqNo, ctx, response, renderCalls, csrfCalls,
                   kwEvals, utilCalls, utilArgs, utilPrior, utilEffect, error, leftover>>

\* ModalView.get: the context is assembled.
ModalViewGet ==
    /\ pc = "modal_get"
    /\ ctx' = get_context_modal_data(view, cfg.cls, req.kwargs)
    /\ log' = Append(log, "context")
    /\ pc' = "render"
    /\ UNCHANGED <<cfg, view, req, reqNo, response, renderCalls, csrfCalls,
                   kwEvals, utilCalls, utilArgs, utilPrior, utilEffect, error, leftover>>

\* ModalView.get: self.render_to_response(is_ajax=self.is_ajax, context=context).
RenderToResponse ==
    /\ pc = "render"
    /\ LET r == render_to_response(view, cfg, view.is_ajax, ctx, get_token(reqNo))
       IN  /\ view' = r.view
           /\ ctx' = r.context
           /\ response' = r.response
           /\ renderCalls' = renderCalls + r.renders
           /\ csrfCalls' = csrfCalls + r.tokens
    /\ log' = Append(log, "respond")
    /\ pc' = "done"
    /\ UNCHANGED <<cfg, req, reqNo, kwEvals, utilCalls, utilArgs, utilPrior, utilEffect, error, leftover>>

\* The request is over; the next one is served by a new instance of the
\* class, whose constructor runs before anything reads its attributes.
NextRequest ==
    /\ pc \in {"done", "error"}
    /\ reqNo < MaxRequests
    /\ view' = NewInstance(view, cfg.cls)
    /\ leftover' = (/\ view.is_ajax
                    /\ view._can_redirect
                    /\ view.redirect_to # None
                    /\ view.util_kwargs # EmptyDict)
    /\ reqNo' = reqNo + 1
    /\ pc' = "constructed"
    /\ req' = NoRequest
    /\ ctx' = EmptyDict
    /\ response' = NoResponse
    /\ renderCalls' = 0
    /\ csrfCalls' = 0
    /\ kwEvals' = 0
    /\ utilCalls' = 0
    /\ utilArgs' = EmptyDict
    /\ utilPrior' = EmptyDict
    /\ utilEffect' = NoEffect
    /\ log' = <<>>
    /\ error' = "none"
    /\ UNCHANGED cfg

Next ==
    \/ Configure
    \/ Dispatch
    \/ UtilViewGet
    \/ GetUtil
    \/ SwitchTemplate
    \/ ModalViewGet
    \/ RenderToResponse
    \/ NextRequest

Spec == Init /\ [][Next]_vars

-----------------------------------------------------------------------------
\* get_util_kwargs on its own: every combination of accumulated util_kwargs,
\* passed keyword arguments and query parameters

\* Mappings an earlier get_util_kwargs call may have left in util_kwargs.
PriorKwargs ==
    { EmptyDict,
      [k \in {"x"} |-> Str("0")],
      [k \in {"x", "y"} |-> IF k = "x" THEN List(<<"9">>) ELSE Str("kept")] }

InitKw ==
    /\ cfg \in {c \in Configs : /\ c.cls = "ModalTemplateUtilView"
                                /\ c.methods = {"util"}
                                /\ c.util_name = None
                                /\ c.template_name = None
                                /\ c.content_template_name = None
                                /\ c.redirect_to = None
                                /\ c.context_extra = EmptyDict}
    /\ \E prior \in PriorKwargs :
          view = [NewInstance(Blank, cfg.cls) EXCEPT !.util_kwargs = prior]
    /\ req \in Requests
    /\ pc = "kw_call"
    /\ reqNo = 1
    /\ ctx = EmptyDict
    /\ response = NoResponse
    /\ renderCalls = 0
    /\ csrfCalls = 0
    /\ kwEvals = 0
    /\ utilCalls = 0
    /\ utilArgs = EmptyDict
    /\ utilPrior = EmptyDict
    /\ utilEffect = NoEffect
    /\ log = <<>>
    /\ error = "none"
    /\ leftover = FALSE

\* self.get_util_kwargs(**kwargs) with the request's query parameters.
KwCall ==
    /\ pc = "kw_call"
    /\ LET k == get_util_kwargs(view, req.GET, req.kwargs)
       IN  /\ view' = k.view
           /\ utilArgs' = k.result
    /\ utilPrior' = view.util_kwargs
    /\ kwEvals' = kwEvals + 1
    /\ pc' = "kw_done"
    /\ UNCHANGED <<cfg, req, reqNo, ctx, response, renderCalls, csrfCalls,
                   utilCalls, utilEffect, log, error, leftover>>

NextKw == KwCall

SpecKw == InitKw /\ [][NextKw]_vars

-----------------------------------------------------------------------------
\* Properties

\* The three conditions of can_redirect, read off the view and the request.
RedirectArmed ==
    /\ view._can_redirect
    /\ req.is_ajax
    /\ view.redirect_to # None
    /\ view.redirect_to # Str("")

IsRedirect(r) == r.response_type = Str("redirect")

\* The request's query string has util=<something non-empty>.
Marked == "util" \in DOMAIN req.GET /\ req.GET["util"] # <<"">>

\* template_name as the constructors left it.
ConstructedTemplate ==
    IF cfg.template_name = None THEN Str(GET_TEMPLATE) ELSE cfg.template_name

\* content_template_name as the constructors left it.
ConstructedContentTemplate ==
    IF cfg.content_template_name = None
    THEN Str(GET_TEMPLATE_CONTENT)
    ELSE cfg.content_template_name

\* C1: a GET with the AJAX flag false that ends in a response ends in one
\* built with the plain HttpResponse class, never a redirect, whose content
\* is the one rendering made for the request, and the template rendered is
\* GET_TEMPLATE, whatever template_name, _can_redirect and redirect_to held.
C1_NonAjaxRendersFullTemplate ==
    (pc = "done" /\ ~req.is_ajax) =>
        /\ response.cls = "HttpResponse"
        /\ ~IsRedirect(response)
        /\ renderCalls = 1
        /\ response.content.template = Str(GET_TEMPLATE)

C1_Witness ==
    /\ pc = "done" /\ ~req.is_ajax
    /\ Marked
    /\ cfg.template_name = Str("site/custom.html")
    /\ cfg.content_template_name = Str("site/custom_content.html")
    /\ view._can_redirect
    /\ view.redirect_to = Str("/done/")
    /\ response.cls = "HttpResponse"
    /\ response.content.template = Str(GET_TEMPLATE)

\* C2: when render_to_response has run, the response is redirect-typed
\* exactly if the flag was armed, the request was AJAX and redirect_to was a
\* non-empty target; a redirect carries redirect_to and was built without
\* rendering a template and without issuing a CSRF token.
C2_RedirectExactlyWhenArmed ==
    pc = "done" =>
        /\ IsRedirect(response) <=> RedirectArmed
        /\ IsRedirect(response) =>
              /\ response.redirect_to = view.redirect_to
              /\ renderCalls = 0
              /\ csrfCalls = 0

C2_Witness ==
    /\ pc = "done"
    /\ RedirectArmed
    /\ IsRedirect(response)
    /\ response.redirect_to = Str("/done/")
    /\ renderCalls = 0 /\ csrfCalls = 0

\* C3: an AJAX request that is not redirected is answered with the
\* ModalJsonResponse class, its content is what the one render_to_string
\* call returned for the view's template and the final context, and in that
\* context csrf_token_value is the token issued for this request, whatever
\* the URL kwargs or get_context_data supplied under that key.
C3_AjaxJsonWithToken ==
    (pc = "done" /\ req.is_ajax /\ ~RedirectArmed) =>
        /\ response.cls = "ModalJsonResponse"
        /\ renderCalls = 1
        /\ csrfCalls = 1
        /\ response.content = [template |-> view.template_name, context |-> ctx]
        /\ "csrf_token_value" \in DOMAIN response.content.context
        /\ response.content.context["csrf_token_value"]
              = Str("csrf-token-" \o ToString(reqNo))

C3_Witness ==
    /\ pc = "done" /\ req.is_ajax /\ ~RedirectArmed
    /\ reqNo = 2
    /\ "csrf_token_value" \in DOMAIN req.kwargs
    /\ "csrf_token_value" \in DOMAIN cfg.context_extra
    /\ response.cls = "ModalJsonResponse"
    /\ response.content.context["csrf_token_value"] = Str("csrf-token-2")

\* C4 as claimed: on every AJAX GET that is not redirected, marked or not,
\* the template rendered is the content template and not GET_TEMPLATE.
C4_AjaxAlwaysContentTemplate ==
    (pc = "done" /\ req.is_ajax /\ ~IsRedirect(response)) =>
        /\ response.content.template = view.content_template_name
        /\ response.content.template # Str(GET_TEMPLATE)

\* C4 amended: on an AJAX GET that is not redirected, the template rendered
\* is content_template_name when the request carries the util marker on a
\* ModalTemplateUtilView, and otherwise (no marker, or a plain
\* ModalTemplateView) the view's template_name, GET_TEMPLATE by default.
C4_AjaxContentTemplateOnlyWhenMarked ==
    (pc = "done" /\ req.is_ajax /\ ~IsRedirect(response)) =>
        IF Marked /\ cfg.cls = "ModalTemplateUtilView"
        THEN response.content.template = ConstructedContentTemplate
        ELSE response.content.template = ConstructedTemplate

C4_Witness ==
    /\ pc = "done" /\ req.is_ajax /\ ~IsRedirect(response)
    /\ cfg.cls = "ModalTemplateUtilView"
    /\ Marked
    /\ cfg.template_name = None
    /\ response.cls = "ModalJsonResponse"
    /\ response.content.template = Str(GET_TEMPLATE_CONTENT)

\* The class defines no method called what util_name holds.
MethodMissing == \A m \in cfg.methods : Str(m) # view.util_name

\* C5: get_util with a method name the view does not have raises, and the
\* step that raises calls no utility method, does not evaluate
\* get_util_kwargs, and leaves util_kwargs, response, redirect_to and
\* template_name as they were; no response is built afterwards.
C5_MissingMethodRaisesUntouched ==
    [][ (pc = "get_util" /\ MethodMissing) =>
            /\ pc' = "error"
            /\ error' = "Exception"
            /\ utilCalls' = utilCalls
            /\ kwEvals' = kwEvals
            /\ view'.util_kwargs = view.util_kwargs
            /\ view'.response = view.response
            /\ view'.redirect_to = view.redirect_to
            /\ view'.template_name = view.template_name
            /\ response' = NoResponse ]_vars

C5_Witness ==
    /\ pc = "error" /\ error = "Exception"
    /\ MethodMissing
    /\ cfg.methods = {"util"}
    /\ view.util_name = Str("run_check")
    /\ "x" \in DOMAIN req.GET
    /\ "x" \in DOMAIN req.kwargs
    /\ utilCalls = 0 /\ kwEvals = 0
    /\ view.util_kwargs = EmptyDict

\* The mapping get_util_kwargs must return when a query key is bound to
\* value_of(query, key): query over passed keyword arguments over prior.
Merged(prior, kwargs, query, value_of(_, _)) ==
    [k \in DOMAIN prior \cup DOMAIN kwargs \cup DOMAIN query |->
        IF k \in DOMAIN query THEN value_of(query, k)
        ELSE IF k \in DOMAIN kwargs THEN kwargs[k]
        ELSE prior[k]]

\* The list of all the values the query string gives for a key.
QueryDict_getlist(query, key) == List(query[key])

\* C6: the mapping returned by get_util_kwargs, and stored in util_kwargs,
\* has as key set the union of the accumulated util_kwargs, the passed
\* keyword arguments and the query parameters, and each key takes the query
\* parameter's value if the query has it, else the passed keyword argument,
\* else the accumulated value.
C6_MergeTakesQueryValue ==
    pc = "kw_done" =>
        /\ DOMAIN utilArgs = DOMAIN utilPrior \cup DOMAIN req.kwargs \cup DOMAIN req.GET
        /\ utilArgs = Merged(utilPrior, req.kwargs, req.GET, QueryDict_get)
        /\ view.util_kwargs = utilArgs

\* What get_util_kwargs returns instead: the same key set and the same
\* precedence, each query key bound to the list of all the values the query
\* string gives for it (x=['5'] for ?x=5).
GetUtilKwargsBindsValueLists ==
    pc = "kw_done" =>
        /\ DOMAIN utilArgs = DOMAIN utilPrior \cup DOMAIN req.kwargs \cup DOMAIN req.GET
        /\ utilArgs = Merged(utilPrior, req.kwargs, req.GET, QueryDict_getlist)
        /\ view.util_kwargs = utilArgs

\* The steps a marked AJAX GET on a ModalTemplateUtilView has gone through
\* when its response is built: flag armed, utility method invoked (once),
\* template switched, context assembled, response built.
UtilityStepsInOrder ==
    /\ log = <<"arm", "util", "switch", "context", "respond">>
    /\ utilCalls = 1
    /\ view._can_redirect

\* The response is a ModalJsonResponse rendering content_template_name with
\* a context whose 'response' entry is what the utility left in self.response.
JsonOfContentTemplate ==
    /\ response.cls = "ModalJsonResponse"
    /\ ~IsRedirect(response)
    /\ response.content.template = ConstructedContentTemplate
    /\ response.content.context["response"] = view.response
    /\ utilEffect.response # Unassigned =>
          response.content.context["response"] = utilEffect.response

\* C7 as claimed: a marked AJAX GET on a ModalTemplateUtilView that ends in
\* a response went through the steps in order, and the response is a
\* redirect if the utility set redirect_to, and otherwise the JSON rendering
\* of the content-only template with the utility's response in the context.
C7_RedirectIffUtilitySetTarget ==
    (pc = "done" /\ req.is_ajax /\ Marked /\ cfg.cls = "ModalTemplateUtilView") =>
        /\ UtilityStepsInOrder
        /\ IF utilEffect.redirect_to # Unassigned
           THEN IsRedirect(response)
           ELSE JsonOfContentTemplate

\* C7 amended: the same steps in the same order; the response is a redirect
\* to redirect_to if redirect_to holds a non-empty target when the response
\* is built, whether the utility or the subclass constructor assigned it,
\* and otherwise (None or '') it is the JSON rendering of the content-only
\* template with the utility's response in the context.
C7_UtilityGetOrder ==
    (pc = "done" /\ req.is_ajax /\ Marked /\ cfg.cls = "ModalTemplateUtilView") =>
        /\ UtilityStepsInOrder
        /\ IF view.redirect_to \notin {None, Str("")}
           THEN /\ IsRedirect(response)
                /\ response.redirect_to = view.redirect_to
           ELSE JsonOfContentTemplate

C7_Witness ==
    /\ pc = "done" /\ req.is_ajax /\ cfg.cls = "ModalTemplateUtilView"
    /\ req.GET = QueryOf(<<"true">>, <<"5">>)
    /\ "response" \in DOMAIN req.kwargs
    /\ cfg.redirect_to = None
    /\ utilEffect = [response |-> ModalResponse("ok", "info"), redirect_to |-> Str("")]
    /\ log = <<"arm", "util", "switch", "context", "respond">>
    /\ view.redirect_to = Str("")
    /\ response.cls = "ModalJsonResponse"
    /\ response.content.template = Str(GET_TEMPLATE_CONTENT)
    /\ response.content.context["response"] = ModalResponse("ok", "info")

\* C8: while and after a GET without the util marker, and any GET on a
\* plain ModalTemplateView, is handled, the utility method has not been
\* invoked and _can_redirect is not armed, and the response is not a
\* redirect, even if the request is AJAX and redirect_to is set; a GET with
\* util=true on a ModalTemplateUtilView that ends in a response has invoked
\* the utility method exactly once.
C8_UtilityOnlyWhenMarked ==
    /\ (pc \in {"util_get", "modal_get", "render", "done"}
        /\ (~Marked \/ cfg.cls = "ModalTemplateView")) =>
            /\ utilCalls = 0
            /\ ~view._can_redirect
            /\ ~IsRedirect(response)
    /\ (pc = "done" /\ cfg.cls = "ModalTemplateUtilView"
        /\ "util" \in DOMAIN req.GET /\ req.GET["util"] = <<"true">>) =>
            utilCalls = 1

C8_Witness ==
    /\ pc = "done" /\ req.is_ajax
    /\ cfg.cls = "ModalTemplateUtilView"
    /\ "util" \notin DOMAIN req.GET
    /\ view.redirect_to = Str("/done/")
    /\ utilCalls = 0
    /\ ~view._can_redirect
    /\ response.cls = "ModalJsonResponse"
    /\ ~IsRedirect(response)

\* C9: every request starts on a view whose is_ajax, _can_redirect,
\* redirect_to and util_kwargs hold the values the constructors give them
\* (False, False, None, {}), whatever the handling of earlier requests wrote;
\* when the instance is handed to dispatch the only difference is a
\* redirect_to that the subclass constructor itself assigned.
C9_FieldsFreshPerRequest ==
    /\ pc = "constructed" =>
          /\ view.is_ajax = FALSE
          /\ view._can_redirect = FALSE
          /\ view.redirect_to = None
          /\ view.util_kwargs = EmptyDict
    /\ pc = "ready" =>
          /\ view.is_ajax = FALSE
          /\ view._can_redirect = FALSE
          /\ view.redirect_to = cfg.redirect_to
          /\ view.util_kwargs = EmptyDict

C9_Witness ==
    /\ pc = "constructed"
    /\ reqNo = 2
    /\ leftover
    /\ cfg.redirect_to = None
    /\ view.is_ajax = FALSE
    /\ view._can_redirect = FALSE
    /\ view.redirect_to = None
    /\ view.util_kwargs = EmptyDict

\* C10: on a utility-mode GET the utility method is invoked with the URL
\* kwargs overlaid with every query parameter of the request, and the key
\* 'util' with the marker's value is always among these keyword arguments.
C10_UtilityGetsQueryValues ==
    utilCalls > 0 =>
        /\ DOMAIN utilArgs = DOMAIN req.kwargs \cup DOMAIN req.GET
        /\ utilArgs = Merged(EmptyDict, req.kwargs, req.GET, QueryDict_get)
        /\ "util" \in DOMAIN utilArgs
        /\ utilArgs["util"] = QueryDict_get(req.GET, "util")

\* What the utility method is invoked with instead: the URL kwargs overlaid
\* with every query parameter, the marker included, each query key bound to
\* the list of all its values (util=['true']).
UtilityGetsValueLists ==
    utilCalls > 0 =>
        /\ DOMAIN utilArgs = DOMAIN req.kwargs \cup DOMAIN req.GET
        /\ utilArgs = Merged(EmptyDict, req.kwargs, req.GET, QueryDict_getlist)
        /\ "util" \in DOMAIN utilArgs
        /\ utilArgs["util"] = List(req.GET["util"])

====
